---- MODULE Spec2Model ----
(***************************************************************************)
(* Session & bankroll ledger of the casino backend.                        *)
(*                                                                         *)
(* The committed database (users, accounts, game_sessions, transactions)   *)
(* is shared by request-handling workers.  Each worker runs one handler at *)
(* a time; a handler that uses a database transaction advances one SQL     *)
(* statement per step, keeps its uncommitted writes in tx[p] and holds row *)
(* locks until it commits or rolls back (PostgreSQL READ COMMITTED).       *)
(***************************************************************************)
EXTENDS Integers, Sequences, FiniteSets, TLC

(***************************************************************************)
(* Bounds of the model                                                     *)
(***************************************************************************)
MaxSessions == 2
MaxCalls == 3
\* width the model gives Go's int64 and PostgreSQL's BIGINT (64 in the program)
WordBits == 20

Users == {"u1", "u2"}
Procs == {"p1", "p2"}
NoProc == "none"

SessionIDs == 1..MaxSessions

(***************************************************************************)
(* Program constants                                                       *)
(***************************************************************************)
StartingBankrollCents == 250000

\* range and wrap-around arithmetic of int64
MaxInt64 == 2^(WordBits - 1) - 1
MinInt64 == -(2^(WordBits - 1))
Int64(x) == ((x - MinInt64) % (2^WordBits)) + MinInt64

availableGames ==
  { [ID |-> "blackjack", MinBet |-> 100, MaxBet |-> 10000, Enabled |-> TRUE],
    [ID |-> "poker",     MinBet |-> 500, MaxBet |-> 50000, Enabled |-> TRUE] }

GetGameByID(id) == {g \in availableGames : g.ID = id}

(***************************************************************************)
(* Inputs the handlers are driven with                                     *)
(***************************************************************************)
InitialBalances == {100, StartingBankrollCents}
StartInputs == { <<"blackjack", 100>>, <<"blackjack", 99>>,
                 <<"blackjack", StartingBankrollCents>>, <<"slots", 100>> }
CompleteInputs == { <<"win", -100>>, <<"win", 0>>, <<"win", 100>>,
                    <<"win", MaxInt64>>, <<"bogus", 0>> }

NULL == "NULL"

VARIABLES
  users,          \* ids of the rows of table users
  accounts,       \* table accounts: user_id -> bankroll_cents
  game_sessions,  \* table game_sessions: id -> row
  transactions,   \* table transactions, in commit order
  nextSessionID,  \* next fresh value of game_sessions.id
  initial,        \* bankroll each account was created with
  accountLock,    \* row lock on accounts: user_id -> holder
  sessionLock,    \* row lock on game_sessions: id -> holder
  pc,             \* position of each worker in its handler
  req,            \* request each worker is serving / served last
  loc,            \* local variables of the running handler
  tx,             \* uncommitted writes of the worker's transaction
  resp,           \* response written by the last handler of the worker
  ncalls,         \* handler calls started so far
  INTERNAL_AUTH_KEY, \* environment variable INTERNAL_AUTH_KEY of the backend
  authKey,        \* X-Internal-Auth header of the requests each worker receives
  bankroll_cents, \* table users of 001_init.sql: id -> bankroll_cents
  blackjack       \* game held by the blackjack API: bet in play, 0 when none

db == <<users, accounts, game_sessions, transactions>>

deployment == <<INTERNAL_AUTH_KEY, authKey>>

usersTable == <<bankroll_cents, blackjack>>

vars == <<users, accounts, game_sessions, transactions, nextSessionID, initial,
          accountLock, sessionLock, pc, req, loc, tx, resp, ncalls,
          deployment, usersTable>>

(***************************************************************************)
(* Records                                                                 *)
(***************************************************************************)
EmptyFn == [x \in {} |-> 0]

NoReq == [op |-> "none", user |-> "-", game |-> "-", bet |-> 0,
          sid |-> 0, result |-> "-", payout |-> 0]

NoResp == [code |-> "none", session_id |-> 0, new_bankroll |-> 0,
           account_deleted |-> FALSE, has_active_session |-> FALSE,
           status |-> "-", user |-> "-", delete_failed |-> FALSE,
           fault |-> FALSE, account_present |-> FALSE,
           unique_violation |-> FALSE, row_status |-> "-",
           rolled_back |-> FALSE]

NoLoc == [userID |-> "-", bankroll |-> 0, newBankroll |-> 0, sessionID |-> 0,
          accountDeleted |-> FALSE, aborted |-> FALSE, deleteFailed |-> FALSE,
          settledAtStart |-> FALSE, status |-> "-", betInt |-> 0]

NoTx == [bankroll |-> EmptyFn, sessions |-> EmptyFn, ledger |-> <<>>,
         deleteUser |-> {}]

ErrorResp(code) == [NoResp EXCEPT !.code = code]

(***************************************************************************)
(* Schema constraints                                                      *)
(***************************************************************************)
\* accounts.bankroll_cents CHECK (bankroll_cents >= 0)
bankroll_checkLoose(b) == TRUE
bankroll_check(b) == b >= 0

\* game_sessions.bet_cents CHECK (bet_cents > 0)
bet_check(b) == b > 0

valid_status(s) == s \in {"active", "completed", "abandoned"}

valid_result(r) ==
  r = NULL \/ r \in {"win", "lose", "push", "blackjack", "fold", "dealer_bust"}

valid_transaction_type(t) == t \in {"bet", "win", "refund", "bonus", "adjustment"}

balance_math_check(row) ==
  row.balance_after_cents = row.balance_before_cents + row.amount_cents

\* rows WHERE user_id = u AND status = 'active'
ActiveSessionIDsNone(rows, u) == {}
ActiveSessionIDs(rows, u) ==
  {id \in DOMAIN rows : rows[id].user_id = u /\ rows[id].status = "active"}

\* CREATE UNIQUE INDEX idx_one_active_session_per_user ... WHERE status = 'active'
idx_one_active_session_per_user(rows, u) ==
  Cardinality(ActiveSessionIDs(rows, u)) <= 1

(***************************************************************************)
(* Transactions                                                            *)
(***************************************************************************)
\* what a statement of worker p sees: committed rows overlaid with its own writes
ViewSessions(p) ==
  [id \in (DOMAIN game_sessions) \cup (DOMAIN tx[p].sessions) |->
     IF id \in DOMAIN tx[p].sessions THEN tx[p].sessions[id] ELSE game_sessions[id]]

Restrict(f, S) == [x \in S |-> f[x]]

\* DELETE FROM users WHERE id = u, with the ON DELETE CASCADE foreign keys of
\* accounts, game_sessions and transactions
CascadeAccountsOnly(D, us, acc, gs, trs) ==
  [users |-> us, accounts |-> Restrict(acc, DOMAIN acc \ D),
   game_sessions |-> gs, transactions |-> trs]
CascadeKeepsLedger(D, us, acc, gs, trs) ==
  [users |-> us \ D,
   accounts |-> Restrict(acc, DOMAIN acc \ D),
   game_sessions |-> Restrict(gs, {id \in DOMAIN gs : gs[id].user_id \notin D}),
   transactions |-> trs]
DeleteUsersCascade(D, us, acc, gs, trs) ==
  [users |-> us \ D,
   accounts |-> Restrict(acc, DOMAIN acc \ D),
   game_sessions |-> Restrict(gs, {id \in DOMAIN gs : gs[id].user_id \notin D}),
   transactions |-> SelectSeq(trs, LAMBDA r : r.user_id \notin D)]

\* the committed database after worker p's transaction commits
CommittedOverwritesLedger(p) ==
  LET t   == tx[p]
      acc == [u \in DOMAIN accounts |->
                IF u \in DOMAIN t.bankroll THEN t.bankroll[u] ELSE accounts[u]]
      gs  == ViewSessions(p)
      trs == IF t.ledger # <<>> THEN t.ledger ELSE transactions
  IN DeleteUsersCascade(t.deleteUser, users, acc, gs, trs)
Committed(p) ==
  LET t   == tx[p]
      acc == [u \in DOMAIN accounts |->
                IF u \in DOMAIN t.bankroll THEN t.bankroll[u] ELSE accounts[u]]
      gs  == ViewSessions(p)
      trs == transactions \o t.ledger
  IN DeleteUsersCascade(t.deleteUser, users, acc, gs, trs)

ReleasedAccountLocksNone(p) == accountLock
ReleasedAccountLocks(p) ==
  [u \in Users |-> IF accountLock[u] = p THEN NoProc ELSE accountLock[u]]

ReleasedSessionLocks(p) ==
  [id \in SessionIDs |-> IF sessionLock[id] = p THEN NoProc ELSE sessionLock[id]]

\* tx.Commit succeeded: the writes become visible together, locks are released
CommitTx(p) ==
  /\ users' = Committed(p).users
  /\ accounts' = Committed(p).accounts
  /\ game_sessions' = Committed(p).game_sessions
  /\ transactions' = Committed(p).transactions
  /\ tx' = [tx EXCEPT ![p] = NoTx]
  /\ accountLock' = ReleasedAccountLocks(p)
  /\ sessionLock' = ReleasedSessionLocks(p)

\* deferred tx.Rollback: the writes are dropped, locks are released
RollbackTxCommits(p) == CommitTx(p)
RollbackTx(p) ==
  /\ UNCHANGED db
  /\ tx' = [tx EXCEPT ![p] = NoTx]
  /\ accountLock' = ReleasedAccountLocks(p)
  /\ sessionLock' = ReleasedSessionLocks(p)

\* the handler writes its response and returns
Respond(p, r) ==
  /\ pc' = [pc EXCEPT ![p] = "idle"]
  /\ loc' = [loc EXCEPT ![p] = NoLoc]
  /\ resp' = [resp EXCEPT ![p] = r]

Goto(p, label) == pc' = [pc EXCEPT ![p] = label]

(***************************************************************************)
(* Initial state: every user registered, no session played yet             *)
(***************************************************************************)
AuthKeys == {"", "k1", "k2"}

InitTables ==
  /\ users = Users
  /\ \E b \in InitialBalances : accounts = [u \in Users |-> IF u = "u1" THEN b ELSE StartingBankrollCents]
  /\ initial = accounts
  /\ game_sessions = EmptyFn
  /\ transactions = <<>>
  /\ nextSessionID = 1
  /\ accountLock = [u \in Users |-> NoProc]
  /\ sessionLock = [id \in SessionIDs |-> NoProc]
  /\ pc = [p \in Procs |-> "idle"]
  /\ req = [p \in Procs |-> NoReq]
  /\ loc = [p \in Procs |-> NoLoc]
  /\ tx = [p \in Procs |-> NoTx]
  /\ resp = [p \in Procs |-> NoResp]
  /\ ncalls = 0
  /\ bankroll_cents = [u \in Users |-> StartingBankrollCents]
  /\ blackjack = 0

\* the backend runs with INTERNAL_AUTH_KEY set and the game services send it
Init ==
  /\ InitTables
  /\ INTERNAL_AUTH_KEY = "k1"
  /\ authKey = [p \in Procs |-> "k1"]

CanCall(p) == pc[p] = "idle" /\ ncalls < MaxCalls

(***************************************************************************)
(* GameSessionHandler.StartGame                                            *)
(***************************************************************************)
StartPending == {q \in Procs : pc[q] \in {"sg_lock", "sg_count", "sg_update", "sg_insert"}}

\* request validation and Pool.Begin
SG_BeginNoMaxBet(p, u, g, b) ==
  /\ CanCall(p)
  /\ nextSessionID + Cardinality(StartPending) <= MaxSessions
  /\ ncalls' = ncalls + 1
  /\ req' = [req EXCEPT ![p] = [NoReq EXCEPT !.op = "start", !.user = u,
                                             !.game = g, !.bet = b]]
  /\ LET game == GetGameByID(g) IN
       IF game = {} THEN Respond(p, ErrorResp("INVALID_GAME"))
       ELSE LET gm == CHOOSE x \in game : TRUE IN
         IF ~gm.Enabled THEN Respond(p, ErrorResp("GAME_DISABLED"))
         ELSE IF b < gm.MinBet THEN Respond(p, ErrorResp("BET_TOO_LOW"))
         ELSE /\ Goto(p, "sg_lock")
              /\ resp' = [resp EXCEPT ![p] = NoResp]
              /\ loc' = [loc EXCEPT ![p] = [NoLoc EXCEPT !.userID = u]]
  /\ UNCHANGED <<db, nextSessionID, initial, deployment, usersTable, accountLock, sessionLock, tx>>
SG_Begin(p, u, g, b) ==
  /\ CanCall(p)
  /\ nextSessionID + Cardinality(StartPending) <= MaxSessions
  /\ ncalls' = ncalls + 1
  /\ req' = [req EXCEPT ![p] = [NoReq EXCEPT !.op = "start", !.user = u,
                                             !.game = g, !.bet = b]]
  /\ LET game == GetGameByID(g) IN
       IF game = {} THEN Respond(p, ErrorResp("INVALID_GAME"))
       ELSE LET gm == CHOOSE x \in game : TRUE IN
         IF ~gm.Enabled THEN Respond(p, ErrorResp("GAME_DISABLED"))
         ELSE IF b < gm.MinBet THEN Respond(p, ErrorResp("BET_TOO_LOW"))
         ELSE IF b > gm.MaxBet THEN Respond(p, ErrorResp("BET_TOO_HIGH"))
         ELSE /\ Goto(p, "sg_lock")
              /\ resp' = [resp EXCEPT ![p] = NoResp]
              /\ loc' = [loc EXCEPT ![p] = [NoLoc EXCEPT !.userID = u]]
  /\ UNCHANGED <<db, nextSessionID, initial, deployment, usersTable, accountLock, sessionLock, tx>>

\* SELECT bankroll_cents FROM accounts WHERE user_id = $1 FOR UPDATE
\* and the insufficient-funds test
SG_LockAccountNoLock(p) ==
  /\ pc[p] = "sg_lock"
  /\ LET u == req[p].user IN
       IF u \notin DOMAIN accounts
       THEN /\ Respond(p, ErrorResp("DB_ERROR"))
            /\ RollbackTx(p)
       ELSE IF accounts[u] < req[p].bet
            THEN /\ Respond(p, ErrorResp("INSUFFICIENT_FUNDS"))
                 /\ RollbackTx(p)
            ELSE /\ loc' = [loc EXCEPT ![p].bankroll = accounts[u]]
                 /\ Goto(p, "sg_count")
                 /\ UNCHANGED <<db, tx, accountLock, sessionLock, resp>>
  /\ UNCHANGED <<nextSessionID, initial, deployment, usersTable, req, ncalls>>
SG_LockAccountNoFundsTest(p) ==
  /\ pc[p] = "sg_lock"
  /\ LET u == req[p].user IN
       IF u \notin DOMAIN accounts
       THEN /\ Respond(p, ErrorResp("DB_ERROR"))
            /\ RollbackTx(p)
       ELSE /\ accountLock[u] = NoProc
            /\ accountLock' = [accountLock EXCEPT ![u] = p]
            /\ loc' = [loc EXCEPT ![p].bankroll = accounts[u]]
            /\ Goto(p, "sg_count")
            /\ UNCHANGED <<db, tx, sessionLock, resp>>
  /\ UNCHANGED <<nextSessionID, initial, deployment, usersTable, req, ncalls>>
SG_LockAccount(p) ==
  /\ pc[p] = "sg_lock"
  /\ LET u == req[p].user IN
       IF u \notin DOMAIN accounts
       THEN /\ Respond(p, ErrorResp("DB_ERROR"))
            /\ RollbackTx(p)
       ELSE /\ accountLock[u] = NoProc
            /\ IF accounts[u] < req[p].bet
               THEN /\ Respond(p, ErrorResp("INSUFFICIENT_FUNDS"))
                    /\ RollbackTx(p)
               ELSE /\ accountLock' = [accountLock EXCEPT ![u] = p]
                    /\ loc' = [loc EXCEPT ![p].bankroll = accounts[u]]
                    /\ Goto(p, "sg_count")
                    /\ UNCHANGED <<db, tx, sessionLock, resp>>
  /\ UNCHANGED <<nextSessionID, initial, deployment, usersTable, req, ncalls>>

\* SELECT COUNT(*) FROM game_sessions WHERE user_id = $1 AND status = 'active'
SG_CountActive(p) ==
  /\ pc[p] = "sg_count"
  /\ LET existingCount == Cardinality(ActiveSessionIDs(ViewSessions(p), req[p].user)) IN
       IF existingCount > 0
       THEN /\ Respond(p, ErrorResp("SESSION_EXISTS"))
            /\ RollbackTx(p)
       ELSE /\ Goto(p, "sg_update")
            /\ UNCHANGED <<db, tx, accountLock, sessionLock, loc, resp>>
  /\ UNCHANGED <<nextSessionID, initial, deployment, usersTable, req, ncalls>>

\* newBankroll := bankroll - req.BetCents; UPDATE accounts SET bankroll_cents = $1
SG_UpdateAccountOutsideTx(p) ==
  /\ pc[p] = "sg_update"
  /\ LET u == req[p].user
         newBankroll == Int64(loc[p].bankroll - req[p].bet)
     IN /\ accountLock[u] \in {NoProc, p}
        /\ IF ~bankroll_check(newBankroll)
           THEN /\ Respond(p, ErrorResp("DB_ERROR"))
                /\ RollbackTx(p)
           ELSE /\ accounts' = [accounts EXCEPT ![u] = newBankroll]
                /\ loc' = [loc EXCEPT ![p].newBankroll = newBankroll]
                /\ Goto(p, "sg_insert")
                /\ UNCHANGED <<users, game_sessions, transactions, tx,
                               accountLock, sessionLock, resp>>
  /\ UNCHANGED <<nextSessionID, initial, deployment, usersTable, req, ncalls>>
SG_UpdateAccount(p) ==
  /\ pc[p] = "sg_update"
  /\ LET u == req[p].user
         newBankroll == Int64(loc[p].bankroll - req[p].bet)
     IN /\ accountLock[u] \in {NoProc, p}
        /\ IF ~bankroll_check(newBankroll)
           THEN /\ Respond(p, ErrorResp("DB_ERROR"))
                /\ RollbackTx(p)
           ELSE /\ tx' = [tx EXCEPT ![p].bankroll = (u :> newBankroll) @@ @]
                /\ accountLock' = [accountLock EXCEPT ![u] = p]
                /\ loc' = [loc EXCEPT ![p].newBankroll = newBankroll]
                /\ Goto(p, "sg_insert")
                /\ UNCHANGED <<db, sessionLock, resp>>
  /\ UNCHANGED <<nextSessionID, initial, deployment, usersTable, req, ncalls>>

NewSession(u, g, b) ==
  [user_id |-> u, game_type |-> g, bet_cents |-> b, status |-> "active",
   result |-> NULL, payout_cents |-> 0]

\* another transaction holds an uncommitted active row for the same index key
PendingActiveInsert(p, u) ==
  \E q \in Procs \ {p} : ActiveSessionIDs(tx[q].sessions, u) # {}

\* INSERT INTO game_sessions (...) VALUES ($1, $2, $3, 'active') RETURNING id
SG_InsertSessionStoresBalance(p) ==
  /\ pc[p] = "sg_insert"
  /\ LET u   == req[p].user
         id  == nextSessionID
         row == NewSession(u, req[p].game, loc[p].newBankroll)
         rows == (id :> row) @@ ViewSessions(p)
     IN /\ ~PendingActiveInsert(p, u)
        /\ IF /\ bet_check(row.bet_cents)
              /\ valid_status(row.status)
              /\ valid_result(row.result)
              /\ u \in users
              /\ idx_one_active_session_per_user(rows, u)
           THEN /\ tx' = [tx EXCEPT ![p].sessions = (id :> row) @@ @]
                /\ loc' = [loc EXCEPT ![p].sessionID = id]
                /\ nextSessionID' = nextSessionID + 1
                /\ Goto(p, "sg_ledger")
                /\ UNCHANGED <<db, accountLock, sessionLock, resp>>
           ELSE /\ Respond(p, ErrorResp("DB_ERROR"))
                /\ RollbackTx(p)
                /\ UNCHANGED nextSessionID
  /\ UNCHANGED <<initial, deployment, usersTable, req, ncalls>>
SG_InsertSession(p) ==
  /\ pc[p] = "sg_insert"
  /\ LET u   == req[p].user
         id  == nextSessionID
         row == NewSession(u, req[p].game, req[p].bet)
         rows == (id :> row) @@ ViewSessions(p)
     IN /\ ~PendingActiveInsert(p, u)
        /\ IF /\ bet_check(row.bet_cents)
              /\ valid_status(row.status)
              /\ valid_result(row.result)
              /\ u \in users
              /\ idx_one_active_session_per_user(rows, u)
           THEN /\ tx' = [tx EXCEPT ![p].sessions = (id :> row) @@ @]
                /\ loc' = [loc EXCEPT ![p].sessionID = id]
                /\ nextSessionID' = nextSessionID + 1
                /\ Goto(p, "sg_ledger")
                /\ UNCHANGED <<db, accountLock, sessionLock, resp>>
           ELSE /\ Respond(p, ErrorResp("DB_ERROR"))
                /\ RollbackTx(p)
                /\ UNCHANGED nextSessionID
  /\ UNCHANGED <<initial, deployment, usersTable, req, ncalls>>

\* the INSERT is answered with a unique violation of
\* idx_one_active_session_per_user: the handler logs it and answers like any
\* other error of the statement
SG_InsertSessionConflict(p) ==
  /\ pc[p] = "sg_insert"
  /\ Respond(p, [ErrorResp("DB_ERROR") EXCEPT !.unique_violation = TRUE])
  /\ RollbackTx(p)
  /\ UNCHANGED <<nextSessionID, initial, deployment, usersTable, req, ncalls>>

LedgerRow(u, sid, type, amount, before, after) ==
  [user_id |-> u, game_session_id |-> sid, transaction_type |-> type,
   amount_cents |-> amount, balance_before_cents |-> before,
   balance_after_cents |-> after]

\* constraints the INSERT INTO transactions statement is checked against
TransactionRowOK(p, row) ==
  /\ valid_transaction_type(row.transaction_type)
  /\ balance_math_check(row)
  /\ row.user_id \in users
  /\ row.game_session_id \in DOMAIN ViewSessions(p)

\* the row StartGame records for the bet
BetRowPositiveAmount(p) ==
  LedgerRow(req[p].user, loc[p].sessionID, "bet", req[p].bet,
            loc[p].bankroll, loc[p].newBankroll)
BetRow(p) ==
  LedgerRow(req[p].user, loc[p].sessionID, "bet", -req[p].bet,
            loc[p].bankroll, loc[p].newBankroll)

\* INSERT INTO transactions (... 'bet', -bet, bankroll, newBankroll ...)
SG_InsertTransaction(p) ==
  /\ pc[p] = "sg_ledger"
  /\ IF TransactionRowOK(p, BetRow(p))
     THEN /\ tx' = [tx EXCEPT ![p].ledger = Append(@, BetRow(p))]
          /\ Goto(p, "sg_commit")
          /\ UNCHANGED <<db, accountLock, sessionLock, loc, resp>>
     ELSE /\ Respond(p, ErrorResp("DB_ERROR"))
          /\ RollbackTx(p)
  /\ UNCHANGED <<nextSessionID, initial, deployment, usersTable, req, ncalls>>

\* tx.Commit and the 201 response
SG_Commit(p) ==
  /\ pc[p] = "sg_commit"
  /\ CommitTx(p)
  /\ Respond(p, [NoResp EXCEPT !.code = "OK", !.session_id = loc[p].sessionID])
  /\ UNCHANGED <<nextSessionID, initial, deployment, usersTable, req, ncalls>>

(***************************************************************************)
(* InternalHandler.CompleteSession                                         *)
(***************************************************************************)
\* URL parameter, request body and Pool.Begin
CS_Begin(p, sid, r, pay) ==
  /\ CanCall(p)
  /\ ncalls' = ncalls + 1
  /\ req' = [req EXCEPT ![p] = [NoReq EXCEPT !.op = "complete", !.sid = sid,
                                             !.result = r, !.payout = pay]]
  /\ resp' = [resp EXCEPT ![p] = NoResp]
  /\ loc' = [loc EXCEPT ![p] =
              [NoLoc EXCEPT !.settledAtStart =
                 (sid \in DOMAIN game_sessions /\ game_sessions[sid].status # "active")]]
  /\ Goto(p, "cs_lock")
  /\ UNCHANGED <<db, nextSessionID, initial, deployment, usersTable, accountLock, sessionLock, tx>>

\* SELECT user_id, bet_cents FROM game_sessions
\* WHERE id = $1 AND status = 'active' FOR UPDATE
CS_LockSessionAnyStatus(p) ==
  /\ pc[p] = "cs_lock"
  /\ LET sid == req[p].sid IN
       IF sid \in DOMAIN game_sessions
       THEN /\ sessionLock[sid] = NoProc
            /\ sessionLock' = [sessionLock EXCEPT ![sid] = p]
            /\ loc' = [loc EXCEPT ![p].userID = game_sessions[sid].user_id]
            /\ Goto(p, "cs_update")
            /\ UNCHANGED <<db, tx, accountLock, resp>>
       ELSE /\ Respond(p, ErrorResp("SESSION_ERROR"))
            /\ RollbackTx(p)
  /\ UNCHANGED <<nextSessionID, initial, deployment, usersTable, req, ncalls>>
CS_LockSessionNoLock(p) ==
  /\ pc[p] = "cs_lock"
  /\ LET sid == req[p].sid IN
       IF sid \in DOMAIN game_sessions /\ game_sessions[sid].status = "active"
       THEN /\ loc' = [loc EXCEPT ![p].userID = game_sessions[sid].user_id]
            /\ Goto(p, "cs_update")
            /\ UNCHANGED <<db, tx, accountLock, sessionLock, resp>>
       ELSE /\ Respond(p, ErrorResp("SESSION_ERROR"))
            /\ RollbackTx(p)
  /\ UNCHANGED <<nextSessionID, initial, deployment, usersTable, req, ncalls>>
CS_LockSession(p) ==
  /\ pc[p] = "cs_lock"
  /\ LET sid == req[p].sid IN
       IF sid \in DOMAIN game_sessions /\ game_sessions[sid].status = "active"
       THEN /\ sessionLock[sid] = NoProc
            /\ sessionLock' = [sessionLock EXCEPT ![sid] = p]
            /\ loc' = [loc EXCEPT ![p].userID = game_sessions[sid].user_id]
            /\ Goto(p, "cs_update")
            /\ UNCHANGED <<db, tx, accountLock, resp>>
       ELSE /\ Respond(p, ErrorResp("SESSION_ERROR"))
            /\ RollbackTx(p)
  /\ UNCHANGED <<nextSessionID, initial, deployment, usersTable, req, ncalls>>

\* UPDATE game_sessions SET status = 'completed', result = $1, payout_cents = $2
\* WHERE id = $3
CS_UpdateSessionKeepsResult(p) ==
  /\ pc[p] = "cs_update"
  /\ LET sid == req[p].sid IN
       /\ sessionLock[sid] \in {NoProc, p}
       /\ IF sid \notin DOMAIN ViewSessions(p)
          THEN /\ Goto(p, "cs_account")
               /\ UNCHANGED <<db, tx, accountLock, sessionLock, loc, resp>>
          ELSE LET row == [ViewSessions(p)[sid] EXCEPT !.status = "completed",
                              !.payout_cents = req[p].payout]
               IN IF valid_status(row.status) /\ valid_result(row.result)
                  THEN /\ tx' = [tx EXCEPT ![p].sessions = (sid :> row) @@ @]
                       /\ sessionLock' = [sessionLock EXCEPT ![sid] = p]
                       /\ Goto(p, "cs_account")
                       /\ UNCHANGED <<db, accountLock, loc, resp>>
                  ELSE /\ Respond(p, ErrorResp("DB_ERROR"))
                       /\ RollbackTx(p)
  /\ UNCHANGED <<nextSessionID, initial, deployment, usersTable, req, ncalls>>
CS_UpdateSession(p) ==
  /\ pc[p] = "cs_update"
  /\ LET sid == req[p].sid IN
       /\ sessionLock[sid] \in {NoProc, p}
       /\ IF sid \notin DOMAIN ViewSessions(p)
          THEN /\ Goto(p, "cs_account")
               /\ UNCHANGED <<db, tx, accountLock, sessionLock, loc, resp>>
          ELSE LET row == [ViewSessions(p)[sid] EXCEPT !.status = "completed",
                              !.result = req[p].result,
                              !.payout_cents = req[p].payout]
               IN IF valid_status(row.status) /\ valid_result(row.result)
                  THEN /\ tx' = [tx EXCEPT ![p].sessions = (sid :> row) @@ @]
                       /\ sessionLock' = [sessionLock EXCEPT ![sid] = p]
                       /\ Goto(p, "cs_account")
                       /\ UNCHANGED <<db, accountLock, loc, resp>>
                  ELSE /\ Respond(p, ErrorResp("DB_ERROR"))
                       /\ RollbackTx(p)
  /\ UNCHANGED <<nextSessionID, initial, deployment, usersTable, req, ncalls>>

\* SELECT bankroll_cents FROM accounts WHERE user_id = $1 FOR UPDATE
CS_LockAccount(p) ==
  /\ pc[p] = "cs_account"
  /\ LET u == loc[p].userID IN
       IF u \notin DOMAIN accounts
       THEN /\ Respond(p, ErrorResp("DB_ERROR"))
            /\ RollbackTx(p)
       ELSE /\ accountLock[u] \in {NoProc, p}
            /\ accountLock' = [accountLock EXCEPT ![u] = p]
            /\ loc' = [loc EXCEPT ![p].bankroll = accounts[u]]
            /\ Goto(p, "cs_credit")
            /\ UNCHANGED <<db, tx, sessionLock, resp>>
  /\ UNCHANGED <<nextSessionID, initial, deployment, usersTable, req, ncalls>>

\* newBankroll := currentBankroll + req.PayoutCents
\* UPDATE accounts SET bankroll_cents = $1 WHERE user_id = $2
CS_UpdateAccountSetsPayout(p) ==
  /\ pc[p] = "cs_credit"
  /\ LET u == loc[p].userID
         newBankroll == Int64(loc[p].bankroll + req[p].payout)
     IN IF ~bankroll_check(newBankroll)
        THEN /\ Respond(p, ErrorResp("DB_ERROR"))
             /\ RollbackTx(p)
        ELSE /\ tx' = [tx EXCEPT ![p].bankroll = (u :> req[p].payout) @@ @]
             /\ loc' = [loc EXCEPT ![p].newBankroll = newBankroll]
             /\ Goto(p, "cs_ledger")
             /\ UNCHANGED <<db, accountLock, sessionLock, resp>>
  /\ UNCHANGED <<nextSessionID, initial, deployment, usersTable, req, ncalls>>
CS_UpdateAccount(p) ==
  /\ pc[p] = "cs_credit"
  /\ LET u == loc[p].userID
         newBankroll == Int64(loc[p].bankroll + req[p].payout)
     IN IF ~bankroll_check(newBankroll)
        THEN /\ Respond(p, ErrorResp("DB_ERROR"))
             /\ RollbackTx(p)
        ELSE /\ tx' = [tx EXCEPT ![p].bankroll = (u :> newBankroll) @@ @]
             /\ loc' = [loc EXCEPT ![p].newBankroll = newBankroll]
             /\ Goto(p, "cs_ledger")
             /\ UNCHANGED <<db, accountLock, sessionLock, resp>>
  /\ UNCHANGED <<nextSessionID, initial, deployment, usersTable, req, ncalls>>

\* the row CompleteSession records for the payout
WinRow(p) ==
  LedgerRow(loc[p].userID, req[p].sid, "win", req[p].payout,
            loc[p].bankroll, loc[p].newBankroll)

\* if newBankroll <= 0
NeedsTeardownBelowZero(newBankroll) == newBankroll < 0
NeedsTeardown(newBankroll) == newBankroll <= 0

\* INSERT INTO transactions (... "win", payout, currentBankroll, newBankroll ...)
CS_InsertTransactionSkipped(p) ==
  /\ pc[p] = "cs_ledger"
  /\ Goto(p, IF NeedsTeardown(loc[p].newBankroll) THEN "cs_delete" ELSE "cs_commit")
  /\ UNCHANGED <<db, tx, accountLock, sessionLock, loc, resp>>
  /\ UNCHANGED <<nextSessionID, initial, deployment, usersTable, req, ncalls>>
CS_InsertTransaction(p) ==
  /\ pc[p] = "cs_ledger"
  /\ IF TransactionRowOK(p, WinRow(p))
     THEN /\ tx' = [tx EXCEPT ![p].ledger = Append(@, WinRow(p))]
          /\ Goto(p, IF NeedsTeardown(loc[p].newBankroll) THEN "cs_delete" ELSE "cs_commit")
          /\ UNCHANGED <<db, accountLock, sessionLock, loc, resp>>
     ELSE /\ Respond(p, ErrorResp("DB_ERROR"))
          /\ RollbackTx(p)
  /\ UNCHANGED <<nextSessionID, initial, deployment, usersTable, req, ncalls>>

\* DELETE FROM users WHERE id = $1 succeeded
CS_DeleteUserUnreported(p) ==
  /\ pc[p] = "cs_delete"
  /\ tx' = [tx EXCEPT ![p].deleteUser = @ \cup {loc[p].userID}]
  /\ Goto(p, "cs_commit")
  /\ UNCHANGED <<db, nextSessionID, initial, deployment, usersTable, accountLock, sessionLock, req, loc, resp, ncalls>>
CS_DeleteUser(p) ==
  /\ pc[p] = "cs_delete"
  /\ tx' = [tx EXCEPT ![p].deleteUser = @ \cup {loc[p].userID}]
  /\ loc' = [loc EXCEPT ![p].accountDeleted = TRUE]
  /\ Goto(p, "cs_commit")
  /\ UNCHANGED <<db, nextSessionID, initial, deployment, usersTable, accountLock, sessionLock, req, resp, ncalls>>

\* DELETE FROM users WHERE id = $1 returned an error: the handler logs it and
\* goes on to tx.Commit, but a transaction with a failed statement is aborted
CS_DeleteUserFails(p) ==
  /\ pc[p] = "cs_delete"
  /\ loc' = [loc EXCEPT ![p].aborted = TRUE, ![p].deleteFailed = TRUE]
  /\ Goto(p, "cs_commit")
  /\ UNCHANGED <<db, nextSessionID, initial, deployment, usersTable, accountLock, sessionLock, req, tx, resp, ncalls>>

\* tx.Commit and the 200 response; committing an aborted transaction rolls it
\* back and Commit returns an error
CS_Commit(p) ==
  /\ pc[p] = "cs_commit"
  /\ IF loc[p].aborted
     THEN /\ RollbackTx(p)
          /\ Respond(p, [ErrorResp("DB_ERROR") EXCEPT !.user = loc[p].userID,
                                                      !.delete_failed = loc[p].deleteFailed])
     ELSE /\ CommitTx(p)
          /\ Respond(p, [NoResp EXCEPT !.code = "OK",
                                       !.user = loc[p].userID,
                                       !.new_bankroll = loc[p].newBankroll,
                                       !.account_deleted = loc[p].accountDeleted])
  /\ UNCHANGED <<nextSessionID, initial, deployment, usersTable, req, ncalls>>

(***************************************************************************)
(* GameSessionHandler.AbandonSession                                       *)
(***************************************************************************)
AS_Begin(p, u) ==
  /\ CanCall(p)
  /\ ncalls' = ncalls + 1
  /\ req' = [req EXCEPT ![p] = [NoReq EXCEPT !.op = "abandon", !.user = u]]
  /\ resp' = [resp EXCEPT ![p] = NoResp]
  /\ loc' = [loc EXCEPT ![p] = [NoLoc EXCEPT !.userID = u]]
  /\ Goto(p, "as_update")
  /\ UNCHANGED <<db, nextSessionID, initial, deployment, usersTable, accountLock, sessionLock, tx>>

\* UPDATE game_sessions SET status = 'abandoned', result = 'lose',
\* payout_cents = 0 WHERE user_id = $1 AND status = 'active'   (autocommit)
AS_UpdateAnyStatus(p) ==
  /\ pc[p] = "as_update"
  /\ LET ids == {id \in DOMAIN game_sessions : game_sessions[id].user_id = req[p].user} IN
       /\ \A id \in ids : sessionLock[id] = NoProc
       /\ IF ids = {}
          THEN /\ Respond(p, ErrorResp("NO_SESSION"))
               /\ UNCHANGED game_sessions
          ELSE /\ game_sessions' =
                    [id \in DOMAIN game_sessions |->
                       IF id \in ids
                       THEN [game_sessions[id] EXCEPT !.status = "abandoned",
                                !.result = "lose", !.payout_cents = 0]
                       ELSE game_sessions[id]]
               /\ Respond(p, [NoResp EXCEPT !.code = "OK"])
  /\ UNCHANGED <<users, accounts, transactions, nextSessionID, initial, deployment, usersTable,
                 accountLock, sessionLock, req, tx, ncalls>>
AS_UpdateEveryUser(p) ==
  /\ pc[p] = "as_update"
  /\ LET ids == {id \in DOMAIN game_sessions : game_sessions[id].status = "active"} IN
       /\ \A id \in ids : sessionLock[id] = NoProc
       /\ IF ids = {}
          THEN /\ Respond(p, ErrorResp("NO_SESSION"))
               /\ UNCHANGED game_sessions
          ELSE /\ game_sessions' =
                    [id \in DOMAIN game_sessions |->
                       IF id \in ids
                       THEN [game_sessions[id] EXCEPT !.status = "abandoned",
                                !.result = "lose", !.payout_cents = 0]
                       ELSE game_sessions[id]]
               /\ Respond(p, [NoResp EXCEPT !.code = "OK"])
  /\ UNCHANGED <<users, accounts, transactions, nextSessionID, initial, deployment, usersTable,
                 accountLock, sessionLock, req, tx, ncalls>>
AS_UpdateIgnoresRowsAffected(p) ==
  /\ pc[p] = "as_update"
  /\ LET ids == ActiveSessionIDs(game_sessions, req[p].user) IN
       /\ \A id \in ids : sessionLock[id] = NoProc
       /\ IF ids = {}
          THEN /\ Respond(p, [NoResp EXCEPT !.code = "OK"])
               /\ UNCHANGED game_sessions
          ELSE /\ game_sessions' =
                    [id \in DOMAIN game_sessions |->
                       IF id \in ids
                       THEN [game_sessions[id] EXCEPT !.status = "abandoned",
                                !.result = "lose", !.payout_cents = 0]
                       ELSE game_sessions[id]]
               /\ Respond(p, [NoResp EXCEPT !.code = "OK"])
  /\ UNCHANGED <<users, accounts, transactions, nextSessionID, initial, deployment, usersTable,
                 accountLock, sessionLock, req, tx, ncalls>>
AS_UpdateNoWait(p) ==
  /\ pc[p] = "as_update"
  /\ LET ids == ActiveSessionIDs(game_sessions, req[p].user) IN
       /\ TRUE
       /\ IF ids = {}
          THEN /\ Respond(p, ErrorResp("NO_SESSION"))
               /\ UNCHANGED game_sessions
          ELSE /\ game_sessions' =
                    [id \in DOMAIN game_sessions |->
                       IF id \in ids
                       THEN [game_sessions[id] EXCEPT !.status = "abandoned",
                                !.result = "lose", !.payout_cents = 0]
                       ELSE game_sessions[id]]
               /\ Respond(p, [NoResp EXCEPT !.code = "OK"])
  /\ UNCHANGED <<users, accounts, transactions, nextSessionID, initial, deployment, usersTable,
                 accountLock, sessionLock, req, tx, ncalls>>
AS_Update(p) ==
  /\ pc[p] = "as_update"
  /\ LET ids == ActiveSessionIDs(game_sessions, req[p].user) IN
       /\ \A id \in ids : sessionLock[id] = NoProc
       /\ IF ids = {}
          THEN /\ Respond(p, ErrorResp("NO_SESSION"))
               /\ UNCHANGED game_sessions
          ELSE /\ game_sessions' =
                    [id \in DOMAIN game_sessions |->
                       IF id \in ids
                       THEN [game_sessions[id] EXCEPT !.status = "abandoned",
                                !.result = "lose", !.payout_cents = 0]
                       ELSE game_sessions[id]]
               /\ Respond(p, [NoResp EXCEPT !.code = "OK"])
  /\ UNCHANGED <<users, accounts, transactions, nextSessionID, initial, deployment, usersTable,
                 accountLock, sessionLock, req, tx, ncalls>>

(***************************************************************************)
(* GameSessionHandler.GetActiveSession and InternalHandler.GetSession      *)
(***************************************************************************)
\* SELECT id, game_type, bet_cents FROM game_sessions
\* WHERE user_id = $1 AND status = 'active'; any Scan error is answered with
\* has_active_session = false
GetActiveSession(p, u) ==
  /\ CanCall(p)
  /\ ncalls' = ncalls + 1
  /\ req' = [req EXCEPT ![p] = [NoReq EXCEPT !.op = "get_active", !.user = u]]
  /\ LET ids == ActiveSessionIDs(game_sessions, u) IN
       IF ids = {}
       THEN Respond(p, [NoResp EXCEPT !.code = "OK", !.has_active_session = FALSE,
                                      !.account_present = (u \in DOMAIN accounts)])
       ELSE \E id \in ids :
              Respond(p, [NoResp EXCEPT !.code = "OK", !.has_active_session = TRUE,
                                       !.session_id = id,
                                       !.account_present = (u \in DOMAIN accounts)])
  /\ UNCHANGED <<db, nextSessionID, initial, deployment, usersTable, accountLock, sessionLock, tx>>

\* SELECT user_id, game_type, bet_cents, status FROM game_sessions WHERE id = $1
GetSession(p, sid) ==
  /\ CanCall(p)
  /\ ncalls' = ncalls + 1
  /\ req' = [req EXCEPT ![p] = [NoReq EXCEPT !.op = "get_session", !.sid = sid]]
  /\ IF sid \notin DOMAIN game_sessions
     THEN Respond(p, ErrorResp("SESSION_NOT_FOUND"))
     ELSE IF game_sessions[sid].status # "active"
     THEN Respond(p, [ErrorResp("SESSION_INACTIVE") EXCEPT
                        !.row_status = game_sessions[sid].status])
     ELSE Respond(p, [NoResp EXCEPT !.code = "OK", !.session_id = sid,
                                   !.status = game_sessions[sid].status,
                                   !.row_status = game_sessions[sid].status])
  /\ UNCHANGED <<db, nextSessionID, initial, deployment, usersTable, accountLock, sessionLock, tx>>

(***************************************************************************)
(* Storage errors                                                          *)
(***************************************************************************)
InFlight == {"sg_lock", "sg_count", "sg_update", "sg_insert", "sg_ledger", "sg_commit",
             "cs_lock", "cs_update", "cs_account", "cs_credit", "cs_ledger",
             "cs_commit", "as_update"}

\* the pending statement (or the commit) fails with a storage error, a timeout
\* or a cancellation: the handler answers DB_ERROR and the deferred rollback runs
StorageError(p) ==
  /\ pc[p] \in InFlight
  /\ RollbackTx(p)
  /\ Respond(p, [ErrorResp("DB_ERROR") EXCEPT !.fault = TRUE,
                                              !.rolled_back = (tx[p] # NoTx)])
  /\ UNCHANGED <<nextSessionID, initial, deployment, usersTable, req, ncalls>>

Next ==
  \E p \in Procs :
    \/ \E u \in Users, in \in StartInputs : SG_Begin(p, u, in[1], in[2])
    \/ SG_LockAccount(p)
    \/ SG_CountActive(p)
    \/ SG_UpdateAccount(p)
    \/ SG_InsertSession(p)
    \/ SG_InsertTransaction(p)
    \/ SG_Commit(p)
    \/ \E sid \in SessionIDs, in \in CompleteInputs : CS_Begin(p, sid, in[1], in[2])
    \/ CS_LockSession(p)
    \/ CS_UpdateSession(p)
    \/ CS_LockAccount(p)
    \/ CS_UpdateAccount(p)
    \/ CS_InsertTransaction(p)
    \/ CS_DeleteUser(p)
    \/ CS_DeleteUserFails(p)
    \/ CS_Commit(p)
    \/ \E u \in Users : AS_Begin(p, u)
    \/ AS_Update(p)
    \/ \E u \in Users : GetActiveSession(p, u)
    \/ \E sid \in SessionIDs : GetSession(p, sid)
    \/ StorageError(p)

Spec == Init /\ [][Next]_vars

(***************************************************************************)
(* Scenario D: every worker issues one StartGame call and nothing else     *)
(***************************************************************************)
StartGamePCs == {"sg_lock", "sg_count", "sg_update", "sg_insert", "sg_ledger", "sg_commit"}

NextStartRace ==
  \E p \in Procs :
    \/ /\ req[p].op = "none"
       /\ \E u \in Users, in \in StartInputs : SG_Begin(p, u, in[1], in[2])
    \/ SG_LockAccount(p)
    \/ SG_CountActive(p)
    \/ SG_UpdateAccount(p)
    \/ SG_InsertSession(p)
    \/ SG_InsertTransaction(p)
    \/ SG_Commit(p)
    \/ (pc[p] \in StartGamePCs /\ StorageError(p))

SpecStartRace == Init /\ [][NextStartRace]_vars

(***************************************************************************)
(* StartGame against a database that may answer the INSERT of the session  *)
(* row with a violation of the unique index                                *)
(***************************************************************************)
NextInsertConflict ==
  \/ NextStartRace
  \/ \E p \in Procs : SG_InsertSessionConflict(p)

SpecInsertConflict == Init /\ [][NextInsertConflict]_vars

(***************************************************************************)
(* The routes /api/internal/*: InternalAuthMiddleware in front of          *)
(* GetSession and CompleteSession, under any configuration of the secret   *)
(* and any X-Internal-Auth header                                          *)
(***************************************************************************)
RejectInternal(p, op, code) ==
  /\ CanCall(p)
  /\ ncalls' = ncalls + 1
  /\ req' = [req EXCEPT ![p] = [NoReq EXCEPT !.op = op]]
  /\ Respond(p, ErrorResp(code))
  /\ UNCHANGED <<db, nextSessionID, initial, deployment, usersTable, accountLock, sessionLock, tx>>

InternalAuthMiddlewareAnyKey(p, op, next) ==
  LET expectedKey == INTERNAL_AUTH_KEY IN
    IF expectedKey = "" THEN RejectInternal(p, op, "CONFIG_ERROR")
    ELSE IF authKey[p] = "" THEN RejectInternal(p, op, "AUTH_FAILED")
    ELSE next
InternalAuthMiddleware(p, op, next) ==
  LET expectedKey == INTERNAL_AUTH_KEY IN
    IF expectedKey = "" THEN RejectInternal(p, op, "CONFIG_ERROR")
    ELSE IF authKey[p] = "" \/ authKey[p] # expectedKey
         THEN RejectInternal(p, op, "AUTH_FAILED")
    ELSE next

InitInternalAuth ==
  /\ InitTables
  /\ INTERNAL_AUTH_KEY \in {"", "k1"}
  /\ authKey \in [Procs -> AuthKeys]

InternalAuthInputs == {<<"win", 0>>, <<"win", 100>>}

NextInternalAuth ==
  \E p \in Procs :
    \/ \E u \in Users : SG_Begin(p, u, "blackjack", 100)
    \/ SG_LockAccount(p)
    \/ SG_CountActive(p)
    \/ SG_UpdateAccount(p)
    \/ SG_InsertSession(p)
    \/ SG_InsertTransaction(p)
    \/ SG_Commit(p)
    \/ \E sid \in SessionIDs, in \in InternalAuthInputs :
         InternalAuthMiddleware(p, "complete", CS_Begin(p, sid, in[1], in[2]))
    \/ CS_LockSession(p)
    \/ CS_UpdateSession(p)
    \/ CS_LockAccount(p)
    \/ CS_UpdateAccount(p)
    \/ CS_InsertTransaction(p)
    \/ CS_DeleteUser(p)
    \/ CS_DeleteUserFails(p)
    \/ CS_Commit(p)
    \/ \E sid \in SessionIDs :
         InternalAuthMiddleware(p, "get_session", GetSession(p, sid))

SpecInternalAuth == InitInternalAuth /\ [][NextInternalAuth]_vars

(***************************************************************************)
(* GameSessionHandler.StartGame of package web/handlers, on the schema of   *)
(* migrations/000002 where idx_game_sessions_user_active is not unique      *)
(***************************************************************************)
WebStartPCs == {"wsg_check", "wsg_update", "wsg_insert", "wsg_commit"}

WebStartPending == {q \in Procs : pc[q] \in {"wsg_check", "wsg_update", "wsg_insert"}}

\* request validation
WSG_Begin(p, u, g, b) ==
  /\ CanCall(p)
  /\ nextSessionID + Cardinality(WebStartPending) <= MaxSessions
  /\ ncalls' = ncalls + 1
  /\ req' = [req EXCEPT ![p] = [NoReq EXCEPT !.op = "start", !.user = u,
                                             !.game = g, !.bet = b]]
  /\ LET game == GetGameByID(g) IN
       IF game = {} THEN Respond(p, ErrorResp("VALIDATION_ERROR"))
       ELSE LET gm == CHOOSE x \in game : TRUE IN
         IF ~gm.Enabled THEN Respond(p, ErrorResp("VALIDATION_ERROR"))
         ELSE IF b < gm.MinBet THEN Respond(p, ErrorResp("BET_TOO_LOW"))
         ELSE IF b > gm.MaxBet THEN Respond(p, ErrorResp("BET_TOO_HIGH"))
         ELSE /\ Goto(p, "wsg_check")
              /\ resp' = [resp EXCEPT ![p] = NoResp]
              /\ loc' = [loc EXCEPT ![p] = [NoLoc EXCEPT !.userID = u]]
  /\ UNCHANGED <<db, nextSessionID, initial, deployment, usersTable, accountLock, sessionLock, tx>>

\* SELECT id FROM game_sessions WHERE user_id = $1 AND status = 'active'
\* LIMIT 1, on the pool (no transaction yet), then Pool.Begin
WSG_CheckActive(p) ==
  /\ pc[p] = "wsg_check"
  /\ IF ActiveSessionIDs(game_sessions, req[p].user) # {}
     THEN Respond(p, ErrorResp("SESSION_EXISTS"))
     ELSE /\ Goto(p, "wsg_update")
          /\ UNCHANGED <<loc, resp>>
  /\ UNCHANGED <<db, nextSessionID, initial, deployment, usersTable, accountLock, sessionLock, req, tx, ncalls>>

\* UPDATE accounts SET bankroll_cents = bankroll_cents - $1
\* WHERE user_id = $2 AND bankroll_cents >= $1 RETURNING bankroll_cents:
\* waits for the row lock and then tests the committed row
WSG_UpdateAccount(p) ==
  /\ pc[p] = "wsg_update"
  /\ LET u == req[p].user IN
       IF u \notin DOMAIN accounts
       THEN /\ Respond(p, ErrorResp("INSUFFICIENT_FUNDS"))
            /\ RollbackTx(p)
       ELSE /\ accountLock[u] = NoProc
            /\ IF accounts[u] < req[p].bet
               THEN /\ Respond(p, ErrorResp("INSUFFICIENT_FUNDS"))
                    /\ RollbackTx(p)
               ELSE /\ tx' = [tx EXCEPT ![p].bankroll =
                                 (u :> Int64(accounts[u] - req[p].bet)) @@ @]
                    /\ accountLock' = [accountLock EXCEPT ![u] = p]
                    /\ loc' = [loc EXCEPT ![p].newBankroll = Int64(accounts[u] - req[p].bet)]
                    /\ Goto(p, "wsg_insert")
                    /\ UNCHANGED <<db, sessionLock, resp>>
  /\ UNCHANGED <<nextSessionID, initial, deployment, usersTable, req, ncalls>>

\* INSERT INTO game_sessions (id, user_id, game_id, bet_cents, status,
\* started_at) VALUES ($1, $2, $3, $4, 'active', $5); the only index on
\* (user_id, status) is a plain one, so nothing refuses a second active row
WSG_InsertSession(p) ==
  /\ pc[p] = "wsg_insert"
  /\ LET u   == req[p].user
         id  == nextSessionID
         row == NewSession(u, req[p].game, req[p].bet)
     IN IF u \in users
        THEN /\ tx' = [tx EXCEPT ![p].sessions = (id :> row) @@ @]
             /\ loc' = [loc EXCEPT ![p].sessionID = id]
             /\ nextSessionID' = nextSessionID + 1
             /\ Goto(p, "wsg_commit")
             /\ UNCHANGED <<db, accountLock, sessionLock, resp>>
        ELSE /\ Respond(p, ErrorResp("INTERNAL_ERROR"))
             /\ RollbackTx(p)
             /\ UNCHANGED nextSessionID
  /\ UNCHANGED <<initial, deployment, usersTable, req, ncalls>>

\* tx.Commit and the 201 response
WSG_Commit(p) ==
  /\ pc[p] = "wsg_commit"
  /\ CommitTx(p)
  /\ Respond(p, [NoResp EXCEPT !.code = "OK", !.session_id = loc[p].sessionID,
                               !.new_bankroll = loc[p].newBankroll])
  /\ UNCHANGED <<nextSessionID, initial, deployment, usersTable, req, ncalls>>

\* a statement or the commit fails: 500 INTERNAL_ERROR, deferred tx.Rollback
WSG_StorageError(p) ==
  /\ pc[p] \in WebStartPCs
  /\ RollbackTx(p)
  /\ Respond(p, [ErrorResp("INTERNAL_ERROR") EXCEPT !.fault = TRUE,
                                                    !.rolled_back = (tx[p] # NoTx)])
  /\ UNCHANGED <<nextSessionID, initial, deployment, usersTable, req, ncalls>>

NextWebStart ==
  \E p \in Procs :
    \/ \E u \in Users, in \in StartInputs : WSG_Begin(p, u, in[1], in[2])
    \/ WSG_CheckActive(p)
    \/ WSG_UpdateAccount(p)
    \/ WSG_InsertSession(p)
    \/ WSG_Commit(p)
    \/ WSG_StorageError(p)

SpecWebStart == Init /\ [][NextWebStart]_vars

(***************************************************************************)
(* The schema of database/migrations/001_init.sql (bankroll on table       *)
(* users, trigger users_delete_on_zero_bankroll) under handleBlackjackStart *)
(* and handleBlackjackStand; every db.Exec is its own transaction.  The     *)
(* win and loss counters of the row are not held.                           *)
(***************************************************************************)
BetInputs == {0, 100, StartingBankrollCents}

StandStatuses == {"player_win", "dealer_bust", "push", "dealer_win", "player_bust"}

\* AFTER UPDATE OF bankroll_cents ON users FOR EACH ROW
delete_user_on_zero_bankrollBelowZero(tbl, u) ==
  IF tbl[u] < 0 THEN Restrict(tbl, DOMAIN tbl \ {u}) ELSE tbl
delete_user_on_zero_bankroll(tbl, u) ==
  IF tbl[u] <= 0 THEN Restrict(tbl, DOMAIN tbl \ {u}) ELSE tbl

\* UPDATE users SET bankroll_cents = bankroll_cents + delta WHERE id = u:
\* no row, or a bigint overflow or CHECK (bankroll_cents >= 0) error, leaves
\* the table as it was; otherwise the row trigger runs in the same statement
UpdateBankroll(tbl, u, delta) ==
  IF u \notin DOMAIN tbl THEN tbl
  ELSE IF tbl[u] + delta > MaxInt64 \/ tbl[u] + delta < MinInt64 THEN tbl
  ELSE IF ~bankroll_check(tbl[u] + delta) THEN tbl
  ELSE delete_user_on_zero_bankroll([tbl EXCEPT ![u] = tbl[u] + delta], u)

\* handleBlackjackStart up to the conditional debit
BJ_Start(p, u, bet) ==
  /\ CanCall(p)
  /\ ncalls' = ncalls + 1
  /\ req' = [req EXCEPT ![p] = [NoReq EXCEPT !.op = "bj_start", !.user = u, !.bet = bet]]
  /\ IF bet <= 0
     THEN /\ Respond(p, ErrorResp("Invalid bet"))
          /\ UNCHANGED bankroll_cents
     ELSE IF u \notin DOMAIN bankroll_cents \/ ~(bankroll_cents[u] >= bet)
     THEN /\ Respond(p, ErrorResp("Insufficient funds"))
          /\ UNCHANGED bankroll_cents
     ELSE /\ bankroll_cents' = UpdateBankroll(bankroll_cents, u, -bet)
          /\ Goto(p, "bj_proxy")
          /\ resp' = [resp EXCEPT ![p] = NoResp]
          /\ loc' = [loc EXCEPT ![p] = [NoLoc EXCEPT !.userID = u]]
  /\ UNCHANGED <<db, nextSessionID, initial, deployment, blackjack, accountLock, sessionLock, tx>>

\* http.Post to /blackjack/start succeeded: the API holds the game
BJ_ProxyStarted(p) ==
  /\ pc[p] = "bj_proxy"
  /\ blackjack' = req[p].bet
  /\ Respond(p, [NoResp EXCEPT !.code = "OK"])
  /\ UNCHANGED <<db, nextSessionID, initial, deployment, bankroll_cents, accountLock,
                 sessionLock, req, tx, ncalls>>

\* http.Post failed: refund UPDATE and 503
BJ_ProxyFailed(p) ==
  /\ pc[p] = "bj_proxy"
  /\ bankroll_cents' = UpdateBankroll(bankroll_cents, req[p].user, req[p].bet)
  /\ Respond(p, ErrorResp("Game API error"))
  /\ UNCHANGED <<db, nextSessionID, initial, deployment, blackjack, accountLock,
                 sessionLock, req, tx, ncalls>>

\* handleBlackjackStand: http.Post to /blackjack/stand; the API resolves the
\* game it holds and answers its status and bet
BJ_Stand(p, u, status) ==
  /\ CanCall(p)
  /\ blackjack # 0
  /\ ncalls' = ncalls + 1
  /\ req' = [req EXCEPT ![p] = [NoReq EXCEPT !.op = "bj_stand", !.user = u]]
  /\ resp' = [resp EXCEPT ![p] = NoResp]
  /\ loc' = [loc EXCEPT ![p] = [NoLoc EXCEPT !.userID = u, !.status = status,
                                             !.betInt = Int64(blackjack)]]
  /\ blackjack' = 0
  /\ Goto(p, "bj_settle")
  /\ UNCHANGED <<db, nextSessionID, initial, deployment, bankroll_cents, accountLock,
                 sessionLock, tx>>

\* the switch on status and the UPDATE it runs
BJ_Settle(p) ==
  /\ pc[p] = "bj_settle"
  /\ LET credit == IF loc[p].status \in {"player_win", "dealer_bust"}
                   THEN Int64(loc[p].betInt * 2)
                   ELSE IF loc[p].status = "push" THEN loc[p].betInt
                   ELSE 0
     IN /\ bankroll_cents' =
             IF loc[p].status \in {"player_win", "dealer_bust", "push"}
             THEN UpdateBankroll(bankroll_cents, loc[p].userID, credit)
             ELSE bankroll_cents
        /\ Respond(p, [NoResp EXCEPT !.code = "OK", !.status = loc[p].status,
                                     !.new_bankroll = credit])
  /\ UNCHANGED <<db, nextSessionID, initial, deployment, blackjack, accountLock,
                 sessionLock, req, tx, ncalls>>

NextUsersTable ==
  \E p \in Procs :
    \/ \E u \in Users, bet \in BetInputs : BJ_Start(p, u, bet)
    \/ BJ_ProxyStarted(p)
    \/ BJ_ProxyFailed(p)
    \/ \E u \in Users, status \in StandStatuses : BJ_Stand(p, u, status)
    \/ BJ_Settle(p)

SpecUsersTable == Init /\ [][NextUsersTable]_vars

(***************************************************************************)
(* One session is opened, and CompleteSession and AbandonSession calls     *)
(* arrive for it in any order and overlap                                  *)
(***************************************************************************)
NextSettleRace ==
  \E p \in Procs :
    \/ /\ nextSessionID = 1
       /\ \A q \in Procs : pc[q] \notin StartGamePCs
       /\ \E u \in Users, in \in StartInputs : SG_Begin(p, u, in[1], in[2])
    \/ SG_LockAccount(p)
    \/ SG_CountActive(p)
    \/ SG_UpdateAccount(p)
    \/ SG_InsertSession(p)
    \/ SG_InsertTransaction(p)
    \/ SG_Commit(p)
    \/ \E sid \in SessionIDs, in \in CompleteInputs : CS_Begin(p, sid, in[1], in[2])
    \/ CS_LockSession(p)
    \/ CS_UpdateSession(p)
    \/ CS_LockAccount(p)
    \/ CS_UpdateAccount(p)
    \/ CS_InsertTransaction(p)
    \/ CS_DeleteUser(p)
    \/ CS_DeleteUserFails(p)
    \/ CS_Commit(p)
    \/ \E u \in Users : AS_Begin(p, u)
    \/ AS_Update(p)
    \/ StorageError(p)

SpecSettleRace == Init /\ [][NextSettleRace]_vars

(***************************************************************************)
(* StartGame, CompleteSession and AbandonSession calls contending for one  *)
(* account and its sessions; a worker that can execute its next statement  *)
(* eventually does                                                         *)
(***************************************************************************)
ContendInputs == {<<"win", 0>>, <<"win", 100>>}

\* the next statement of the handler worker p is running
Step(p) ==
  \/ SG_LockAccount(p)
  \/ SG_CountActive(p)
  \/ SG_UpdateAccount(p)
  \/ SG_InsertSession(p)
  \/ SG_InsertTransaction(p)
  \/ SG_Commit(p)
  \/ CS_LockSession(p)
  \/ CS_UpdateSession(p)
  \/ CS_LockAccount(p)
  \/ CS_UpdateAccount(p)
  \/ CS_InsertTransaction(p)
  \/ CS_DeleteUser(p)
  \/ CS_Commit(p)
  \/ AS_Update(p)

NextContend ==
  \E p \in Procs :
    \/ SG_Begin(p, "u1", "blackjack", 100)
    \/ \E sid \in SessionIDs, in \in ContendInputs : CS_Begin(p, sid, in[1], in[2])
    \/ AS_Begin(p, "u1")
    \/ Step(p)
    \/ CS_DeleteUserFails(p)
    \/ StorageError(p)

SpecContend ==
  Init /\ [][NextContend]_vars /\ \A p \in Procs : WF_vars(Step(p))

(***************************************************************************)
(* Properties                                                              *)
(***************************************************************************)
Finished(p, op) == pc[p] = "idle" /\ req[p].op = op /\ resp[p].code # "none"

ActiveOf(u) ==
  {id \in DOMAIN game_sessions :
     game_sessions[id].user_id = u /\ game_sessions[id].status = "active"}

LedgerRowsOf(u) == {i \in DOMAIN transactions : transactions[i].user_id = u}

RowsOfSession(sid, type) ==
  {i \in DOMAIN transactions : /\ transactions[i].game_session_id = sid
                               /\ transactions[i].transaction_type = type}

PendingRows == UNION {{tx[p].ledger[i] : i \in DOMAIN tx[p].ledger} : p \in Procs}

CommittedRows == {transactions[i] : i \in DOMAIN transactions}

RowMathHolds(row) ==
  row.balance_after_cents - row.balance_before_cents = row.amount_cents

\* C1: no committed account has a negative balance, and no settlement is
\* answered with success for a balance below zero (a payout that would drive
\* the balance negative is rejected)
C1_BalanceNonNegative ==
  /\ \A u \in DOMAIN accounts : accounts[u] >= 0
  /\ \A p \in Procs :
       (Finished(p, "complete") /\ resp[p].code = "OK") => resp[p].new_bankroll >= 0

\* a settlement with a negative payout larger than the balance was refused
\* and the zero balance is still in place
C1_Witness ==
  \E p \in Procs :
    /\ Finished(p, "complete") /\ resp[p].code = "DB_ERROR" /\ ~resp[p].fault
    /\ req[p].payout < 0
    /\ req[p].sid \in DOMAIN game_sessions
    /\ game_sessions[req[p].sid].status = "active"
    /\ LET u == game_sessions[req[p].sid].user_id IN
         u \in DOMAIN accounts /\ accounts[u] + req[p].payout < 0

\* C2: every account has at most one session with status = active in every
\* committed state
C2_SingleActiveSession ==
  \A u \in Users : Cardinality(ActiveOf(u)) <= 1

\* two StartGame calls race on an account: one holds the account row and is
\* about to commit its active session while the other waits for the row
C2_Witness ==
  \E p, q \in Procs :
    /\ p # q
    /\ pc[p] = "sg_commit" /\ pc[q] = "sg_lock"
    /\ req[p].user = req[q].user

\* C3: every ledger row written by StartGame or CompleteSession, committed or
\* not, and every row they hand to the INSERT, has
\* balance_after_cents = balance_before_cents + amount_cents
C3_LedgerMath ==
  /\ \A row \in CommittedRows \cup PendingRows : RowMathHolds(row)
  /\ \A p \in Procs : pc[p] = "sg_ledger" => RowMathHolds(BetRow(p))
  /\ \A p \in Procs : pc[p] = "cs_ledger" => RowMathHolds(WinRow(p))

\* a bet row and a win row with a non-zero amount are both committed
C3_Witness ==
  /\ \E row \in CommittedRows : row.transaction_type = "bet" /\ row.amount_cents < 0
  /\ \E row \in CommittedRows : row.transaction_type = "win" /\ row.amount_cents > 0

\* C4: the first statement of a CompleteSession call on a session that was
\* already settled when the call began ends the call with SESSION_ERROR
\* (session not active) and leaves accounts, sessions and ledger as they were
C4_SecondCompleteRejected ==
  [][\A p \in Procs :
       (pc[p] = "cs_lock" /\ loc[p].settledAtStart /\ pc'[p] # pc[p])
         => /\ pc'[p] = "idle"
            /\ resp'[p].code = "SESSION_ERROR" \/ resp'[p].fault
            /\ UNCHANGED db]_vars

\* a second CompleteSession on a completed session was answered SESSION_ERROR
C4_Witness ==
  \E p \in Procs :
    /\ Finished(p, "complete") /\ resp[p].code = "SESSION_ERROR"
    /\ req[p].sid \in DOMAIN game_sessions
    /\ game_sessions[req[p].sid].status = "completed"
    /\ Cardinality(RowsOfSession(req[p].sid, "win")) = 1

\* C5: of the CompleteSession calls on one session at most one is answered
\* with success, and a session never has more than one win ledger row
C5_SingleSettlement ==
  /\ \A sid \in DOMAIN game_sessions : Cardinality(RowsOfSession(sid, "win")) <= 1
  /\ \A p, q \in Procs :
       (p # q /\ Finished(p, "complete") /\ Finished(q, "complete")
          /\ req[p].sid = req[q].sid)
         => ~(resp[p].code = "OK" /\ resp[q].code = "OK")
  /\ \A p \in Procs, sid \in DOMAIN game_sessions :
       (pc[p] \in {"cs_update", "cs_account", "cs_credit", "cs_ledger", "cs_delete", "cs_commit"}
          /\ req[p].sid = sid)
         => (game_sessions[sid].status = "active" /\ sessionLock[sid] = p)

\* two CompleteSession calls are in flight on the same active session: one
\* is about to commit, the other waits for the session row
C5_Witness ==
  \E p, q \in Procs :
    /\ p # q
    /\ pc[p] = "cs_commit" /\ ~loc[p].aborted /\ pc[q] = "cs_lock"
    /\ req[p].sid = req[q].sid

ValidStart(r) ==
  \E g \in GetGameByID(r.game) : g.Enabled /\ g.MinBet <= r.bet /\ r.bet <= g.MaxBet

RECURSIVE SumAmounts(_, _)
SumAmounts(rows, u) ==
  IF rows = <<>> THEN 0
  ELSE (IF Head(rows).user_id = u THEN Head(rows).amount_cents ELSE 0)
       + SumAmounts(Tail(rows), u)

SessionsOf(u) == {id \in DOMAIN game_sessions : game_sessions[id].user_id = u}

\* C6: when every worker issues one StartGame and two valid calls for the same
\* account with bets the balance covers singly but not together have both
\* been answered without a storage error, exactly one was answered with
\* success, the other with SESSION_EXISTS or INSUFFICIENT_FUNDS, and the
\* balance is the starting balance less the winner's bet
C6_ExactlyOneStartWins ==
  \A p, q \in Procs :
    (/\ p # q
     /\ Finished(p, "start") /\ Finished(q, "start")
     /\ req[p].user = req[q].user
     /\ ValidStart(req[p]) /\ ValidStart(req[q])
     /\ ~resp[p].fault /\ ~resp[q].fault
     /\ req[p].bet <= initial[req[p].user] /\ req[q].bet <= initial[req[p].user]
     /\ req[p].bet + req[q].bet > initial[req[p].user])
    => \E w, l \in {p, q} :
         /\ w # l
         /\ resp[w].code = "OK"
         /\ resp[l].code \in {"SESSION_EXISTS", "INSUFFICIENT_FUNDS"}
         /\ accounts[req[w].user] = initial[req[w].user] - req[w].bet
         /\ ActiveOf(req[w].user) = {resp[w].session_id}

\* two StartGame calls are in flight on an account whose balance covers each
\* bet but not both: one is about to commit, the other waits for the row
C6_Witness ==
  \E p, q \in Procs :
    /\ p # q
    /\ pc[p] = "sg_commit" /\ pc[q] = "sg_lock"
    /\ req[p].user = req[q].user
    /\ req[p].bet <= initial[req[p].user] /\ req[q].bet <= initial[req[p].user]
    /\ req[p].bet + req[q].bet > initial[req[p].user]

\* C7: in every committed state the balance of an account, its session rows
\* and its ledger rows agree: the balance is the starting balance plus the
\* ledger amounts, every session has its bet row, a session is completed
\* exactly when its win row exists, and every ledger row has its session
C7_NoPartialApplication ==
  /\ \A u \in DOMAIN accounts : accounts[u] = initial[u] + SumAmounts(transactions, u)
  /\ \A sid \in DOMAIN game_sessions :
       /\ Cardinality(RowsOfSession(sid, "bet")) = 1
       /\ (game_sessions[sid].status = "completed") <=> (RowsOfSession(sid, "win") # {})
  /\ \A row \in CommittedRows :
       /\ row.game_session_id \in DOMAIN game_sessions
       /\ row.user_id = game_sessions[row.game_session_id].user_id

\* a StartGame and a CompleteSession transaction hold uncommitted balance,
\* session and ledger writes side by side
C7_Witness ==
  \E p, q \in Procs :
    /\ pc[p] = "sg_commit" /\ pc[q] = "cs_commit" /\ ~loc[q].aborted
    /\ req[q].payout # 0
    /\ tx[p].bankroll[req[p].user] # accounts[req[p].user]
    /\ tx[q].bankroll[loc[q].userID] # accounts[loc[q].userID]

C10_SettlementSurvivesFailedTeardown ==
  \A p \in Procs :
    (Finished(p, "complete") /\ resp[p].delete_failed)
      => /\ resp[p].code = "OK"
         /\ ~resp[p].account_deleted
         /\ req[p].sid \in DOMAIN game_sessions
         /\ game_sessions[req[p].sid].status = "completed"
         /\ RowsOfSession(req[p].sid, "win") # {}

\* the session row CompleteSession writes for the request of worker p
CompletedRow(old, p) ==
  [old EXCEPT !.status = "completed", !.result = req[p].result,
              !.payout_cents = req[p].payout]

AbandonedRow(old) ==
  [old EXCEPT !.status = "abandoned", !.result = "lose", !.payout_cents = 0]

C12_ActiveSessionRejectsStart ==
  [][\A p \in Procs :
       (/\ pc[p] \in {"sg_lock", "sg_count"} /\ pc'[p] # pc[p]
        /\ ActiveOf(req[p].user) # {})
       => /\ UNCHANGED db
          /\ pc[p] = "sg_count" => pc'[p] = "idle"
          /\ pc'[p] = "idle" => (resp'[p].code = "SESSION_EXISTS" \/ resp'[p].fault)]_vars

\* C13 as stated: a StartGame whose INSERT of the session row was answered
\* with a violation of the one-active-session index is answered with
\* SESSION_EXISTS (the handler's code for SESSION_ALREADY_ACTIVE), not with a
\* storage error, and commits no debit and no ledger row
C13_UniqueViolationIsSessionExists ==
  \A p \in Procs :
    (Finished(p, "start") /\ resp[p].unique_violation)
      => /\ resp[p].code = "SESSION_EXISTS"
         /\ tx[p] = NoTx
         /\ \A u \in DOMAIN accounts : accounts[u] = initial[u] + SumAmounts(transactions, u)

C15_StartGameEffect ==
  [][\A p \in Procs :
       (pc[p] = "sg_commit" /\ pc'[p] = "idle" /\ resp'[p].code = "OK")
       => LET u   == req[p].user
              bet == req[p].bet
              B   == accounts[u]
              sid == resp'[p].session_id
          IN /\ ActiveOf(u) = {}
             /\ accounts' = [accounts EXCEPT ![u] = B - bet]
             /\ sid \notin DOMAIN game_sessions
             /\ game_sessions' = (sid :> NewSession(u, req[p].game, bet)) @@ game_sessions
             /\ transactions' =
                  Append(transactions, LedgerRow(u, sid, "bet", -bet, B, B - bet))
             /\ users' = users]_vars

\* scenario A: the first StartGame on an account holding the starting
\* bankroll succeeded; the balance is down by the bet, the session is active
\* and the bet row is the only ledger row of the account
C15_Witness ==
  \E p \in Procs :
    /\ Finished(p, "start") /\ resp[p].code = "OK"
    /\ initial[req[p].user] = StartingBankrollCents
    /\ accounts[req[p].user] = StartingBankrollCents - req[p].bet
    /\ ActiveOf(req[p].user) = {resp[p].session_id}
    /\ Cardinality(LedgerRowsOf(req[p].user)) = 1

\* C16: the commit of a successful CompleteSession(sid, result, payout) whose
\* account has balance B with B + payout > 0 finds the session active and
\* leaves it completed with that result and payout, the balance at
\* B + payout, and one new ledger row (win, amount payout, balance_before B,
\* balance_after B + payout; amount 0 and an unchanged balance for payout 0);
\* nothing else changes and the account is kept
C16_CompleteSessionEffect ==
  [][\A p \in Procs :
       (/\ pc[p] = "cs_commit" /\ pc'[p] = "idle" /\ resp'[p].code = "OK"
        /\ accounts[loc[p].userID] + req[p].payout > 0)
       => LET sid == req[p].sid
              u   == loc[p].userID
              pay == req[p].payout
              B   == accounts[u]
          IN /\ game_sessions[sid].status = "active"
             /\ game_sessions[sid].user_id = u
             /\ game_sessions' = [game_sessions EXCEPT ![sid] = CompletedRow(@, p)]
             /\ accounts' = [accounts EXCEPT ![u] = B + pay]
             /\ transactions' =
                  Append(transactions, LedgerRow(u, sid, "win", pay, B, B + pay))
             /\ users' = users
             /\ resp'[p].new_bankroll = B + pay
             /\ ~resp'[p].account_deleted]_vars

\* scenario B: a session was settled with payout 0; it is completed, the
\* balance is what it was after the bet and the win row has amount 0
C16_Witness ==
  \E p \in Procs :
    /\ Finished(p, "complete") /\ resp[p].code = "OK" /\ req[p].payout = 0
    /\ req[p].sid \in DOMAIN game_sessions
    /\ game_sessions[req[p].sid].status = "completed"
    /\ game_sessions[req[p].sid].result = req[p].result
    /\ accounts[resp[p].user] = StartingBankrollCents - game_sessions[req[p].sid].bet_cents
    /\ \E i \in RowsOfSession(req[p].sid, "win") :
         /\ transactions[i].amount_cents = 0
         /\ transactions[i].balance_after_cents = accounts[resp[p].user]

\* C17: a successful AbandonSession of user u turns u's one active session
\* into abandoned / lose / payout 0 and changes nothing else: users, balances
\* (the bet stays debited) and ledger are as they were, and so is every other
\* session row
C17_AbandonSessionEffect ==
  [][\A p \in Procs :
       (pc[p] = "as_update" /\ pc'[p] = "idle" /\ resp'[p].code = "OK")
       => /\ \E sid \in ActiveOf(req[p].user) :
               /\ ActiveOf(req[p].user) = {sid}
               /\ game_sessions' = [game_sessions EXCEPT ![sid] = AbandonedRow(@)]
          /\ UNCHANGED <<users, accounts, transactions>>]_vars

\* a session was abandoned: the bet is still debited, the bet row is the only
\* ledger row of the account, and another user's session is still active
C17_Witness ==
  \E p \in Procs :
    /\ Finished(p, "abandon") /\ resp[p].code = "OK"
    /\ \E sid \in SessionsOf(req[p].user) :
         /\ game_sessions[sid].status = "abandoned"
         /\ accounts[req[p].user] = initial[req[p].user] - game_sessions[sid].bet_cents
    /\ Cardinality(LedgerRowsOf(req[p].user)) = 1
    /\ \E v \in Users \ {req[p].user} : ActiveOf(v) # {}

\* C18 as stated: in every committed state no account has balance 0 and no
\* active session
C18_ZeroBalanceAccountDestroyed ==
  \A u \in DOMAIN accounts : ~(accounts[u] = 0 /\ ActiveOf(u) = {})

\* C19 as stated: every committed session row has payout_cents >= 0 and
\* every committed win row has amount_cents >= 0
C19_PayoutNonNegative ==
  /\ \A sid \in DOMAIN game_sessions : game_sessions[sid].payout_cents >= 0
  /\ \A row \in CommittedRows :
       row.transaction_type = "win" => row.amount_cents >= 0

\* C20 as stated: the credit of a CompleteSession that holds its active
\* session and the account row succeeds (a storage error aside) and sets the
\* new balance to old balance + payout_cents, without wrap-around
C20_CreditAlwaysSucceeds ==
  [][\A p \in Procs :
       (pc[p] = "cs_credit" /\ pc'[p] # pc[p])
       => \/ resp'[p].fault
          \/ /\ pc'[p] = "cs_ledger"
             /\ loc'[p].newBankroll = loc[p].bankroll + req[p].payout
             /\ tx'[p].bankroll[loc[p].userID] = loc[p].bankroll + req[p].payout]_vars

\* C21: in every committed state a session with status = completed has a
\* result that is not null and is one of the results the schema admits,
\* whatever result string the callers of CompleteSession submitted
C21_CompletedHasResult ==
  \A sid \in DOMAIN game_sessions :
    game_sessions[sid].status = "completed"
      => /\ game_sessions[sid].result # NULL
         /\ valid_result(game_sessions[sid].result)

\* a CompleteSession with a result the schema does not admit was refused and
\* the session was then completed with the result win
C21_Witness ==
  \E p, q \in Procs :
    /\ Finished(q, "complete") /\ req[q].result = "bogus"
    /\ resp[q].code = "DB_ERROR" /\ ~resp[q].fault
    /\ Finished(p, "complete") /\ resp[p].code = "OK"
    /\ req[p].sid = req[q].sid
    /\ req[p].sid \in DOMAIN game_sessions
    /\ game_sessions[req[p].sid].status = "completed"
    /\ game_sessions[req[p].sid].result = req[p].result

\* C22 as stated: GetSession answers not-found for an unknown session id and,
\* for every session row it finds, completed and abandoned ones included, it
\* answers with the snapshot of the row, whose status is the status of the row
C22_GetSessionExposesStatus ==
  \A p \in Procs :
    Finished(p, "get_session")
      => IF resp[p].row_status = "-"
         THEN resp[p].code = "SESSION_NOT_FOUND"
         ELSE /\ resp[p].code = "OK"
              /\ resp[p].session_id = req[p].sid
              /\ resp[p].status = resp[p].row_status

TxPCs == {"sg_lock", "sg_count", "sg_update", "sg_insert", "sg_ledger", "sg_commit",
          "cs_lock", "cs_update", "cs_account", "cs_credit", "cs_ledger",
          "cs_delete", "cs_commit"}

\* C23: every step of a StartGame or CompleteSession call other than its
\* successful commit leaves users, balances, session rows and ledger as they
\* are, and a call stopped by a storage error, a timeout or a cancellation
\* ends with its uncommitted writes dropped and its row locks released
C23_FailureLeavesNoEffect ==
  [][\A p \in Procs :
       (/\ pc[p] \in TxPCs /\ pc'[p] # pc[p]
        /\ ~(pc[p] \in {"sg_commit", "cs_commit"} /\ resp'[p].code = "OK"))
       => /\ UNCHANGED db
          /\ pc'[p] = "idle"
               => /\ tx'[p] = NoTx
                  /\ \A u \in Users : accountLock'[u] # p
                  /\ \A id \in SessionIDs : sessionLock'[id] # p]_vars

\* a StartGame that had staged its debit, session row or ledger row was
\* stopped by a storage error; the account has its starting balance, no
\* session and no ledger row
C23_Witness ==
  \E p \in Procs :
    /\ Finished(p, "start") /\ resp[p].fault /\ resp[p].rolled_back
    /\ accounts[req[p].user] = initial[req[p].user]
    /\ SessionsOf(req[p].user) = {}
    /\ LedgerRowsOf(req[p].user) = {}

AllRowsOfSession(sid) ==
  {i \in DOMAIN transactions : transactions[i].game_session_id = sid}

\* C24: in every committed state each session row has exactly one bet ledger
\* row and at most one win ledger row, it has a win row exactly when it is
\* completed, it has no ledger row of another type, and an abandoned session
\* has its bet row only
C24_LedgerRowsPerSession ==
  \A sid \in DOMAIN game_sessions :
    /\ Cardinality(RowsOfSession(sid, "bet")) = 1
    /\ Cardinality(RowsOfSession(sid, "win")) <= 1
    /\ (RowsOfSession(sid, "win") # {}) <=> (game_sessions[sid].status = "completed")
    /\ AllRowsOfSession(sid) = RowsOfSession(sid, "bet") \cup RowsOfSession(sid, "win")
    /\ game_sessions[sid].status = "abandoned"
         => AllRowsOfSession(sid) = RowsOfSession(sid, "bet")

\* an abandoned session with its bet row only next to a session of another
\* user that is still active
C24_Witness ==
  \E sid, other \in DOMAIN game_sessions :
    /\ game_sessions[sid].status = "abandoned"
    /\ Cardinality(AllRowsOfSession(sid)) = 1
    /\ game_sessions[other].status = "active"
    /\ Cardinality(AllRowsOfSession(other)) = 1

ValidationCode(r) ==
  IF GetGameByID(r.game) = {} THEN "INVALID_GAME"
  ELSE LET gm == CHOOSE x \in GetGameByID(r.game) : TRUE IN
         IF ~gm.Enabled THEN "GAME_DISABLED"
         ELSE IF r.bet < gm.MinBet THEN "BET_TOO_LOW"
         ELSE IF r.bet > gm.MaxBet THEN "BET_TOO_HIGH"
         ELSE "valid"

\* C29: a StartGame for an unknown game, a disabled game or a bet outside the
\* game's limits is answered with INVALID_GAME, GAME_DISABLED, BET_TOO_LOW or
\* BET_TOO_HIGH; such a call never holds a transaction, a row lock or an
\* uncommitted write, and as the first call it leaves balances, sessions and
\* ledger as they were created
C29_InvalidStartRejected ==
  \A p \in Procs :
    (req[p].op = "start" /\ ~ValidStart(req[p]))
      => /\ pc[p] = "idle"
         /\ resp[p].code = ValidationCode(req[p])
         /\ resp[p].code \in {"INVALID_GAME", "GAME_DISABLED", "BET_TOO_LOW", "BET_TOO_HIGH"}
         /\ tx[p] = NoTx
         /\ \A u \in Users : accountLock[u] # p
         /\ ncalls = 1 => (accounts = initial /\ game_sessions = EmptyFn
                                              /\ transactions = <<>>)

\* a StartGame whose bet the balance covers was refused for exceeding the
\* game's maximum, and nothing was written
C29_Witness ==
  \E p \in Procs :
    /\ Finished(p, "start") /\ resp[p].code = "BET_TOO_HIGH"
    /\ req[p].bet <= accounts[req[p].user]
    /\ accounts = initial /\ game_sessions = EmptyFn /\ transactions = <<>>

\* C30: the UPDATE of an AbandonSession for a user who has no active session
\* (none was opened, or every session is completed or abandoned) matches no
\* row: the call is answered NO_SESSION and accounts, sessions and ledger
\* stay as they were
C30_AbandonWithoutSession ==
  [][\A p \in Procs :
       (/\ pc[p] = "as_update" /\ pc'[p] = "idle"
        /\ ActiveOf(req[p].user) = {}
        /\ ~resp'[p].fault)
         => /\ resp'[p].code = "NO_SESSION"
            /\ UNCHANGED db]_vars

\* an AbandonSession was answered NO_SESSION for a user whose only session
\* had already left the active status
C30_Witness ==
  \E p \in Procs :
    /\ Finished(p, "abandon") /\ resp[p].code = "NO_SESSION"
    /\ SessionsOf(req[p].user) # {}
    /\ \A id \in SessionsOf(req[p].user) :
          game_sessions[id].status \in {"completed", "abandoned"}

InternalOps == {"complete", "get_session"}

CompleteSessionPCs == {"cs_lock", "cs_update", "cs_account", "cs_credit",
                       "cs_ledger", "cs_delete", "cs_commit"}

C27_WebStartSingleActive ==
  /\ \A u \in Users : Cardinality(ActiveOf(u)) <= 1
  /\ \A p, q \in Procs :
       (/\ p # q /\ Finished(p, "start") /\ Finished(q, "start")
        /\ resp[p].code = "OK" /\ resp[q].code = "OK"
        /\ req[p].user = req[q].user)
         => ~(/\ resp[p].session_id \in ActiveOf(req[p].user)
              /\ resp[q].session_id \in ActiveOf(req[p].user))

\* C28: on the users table with the delete-on-zero trigger, every statement
\* leaves only rows with bankroll_cents > 0; the debit of a blackjack start
\* that takes the whole bankroll removes the user while the handler still
\* goes on to the game; and the refund or the settlement of a user who is
\* no longer in the table changes no row
C28_DeleteOnZeroTrigger ==
  [][/\ \A u \in DOMAIN bankroll_cents' : bankroll_cents'[u] > 0
     /\ \A p \in Procs :
          /\ (/\ pc[p] = "idle" /\ pc'[p] = "bj_proxy"
              /\ req'[p].user \in DOMAIN bankroll_cents
              /\ req'[p].bet = bankroll_cents[req'[p].user])
               => req'[p].user \notin DOMAIN bankroll_cents'
          /\ (/\ pc[p] \in {"bj_proxy", "bj_settle"} /\ pc'[p] = "idle"
              /\ req[p].user \notin DOMAIN bankroll_cents)
               => bankroll_cents' = bankroll_cents]_vars

\* a player bet the whole bankroll, won, and the credit of twice the bet
\* found no row: the user is gone
C28_Witness ==
  \E p \in Procs :
    /\ Finished(p, "bj_stand")
    /\ resp[p].status \in {"player_win", "dealer_bust"}
    /\ resp[p].new_bankroll = 2 * StartingBankrollCents
    /\ req[p].user \notin DOMAIN bankroll_cents
    /\ \A u \in DOMAIN bankroll_cents : bankroll_cents[u] = StartingBankrollCents

\* the accounts a step tears down
TornDown == (DOMAIN accounts) \ (DOMAIN accounts')

\* C31: every step leaves the ledger rows written so far as they are and in
\* their order, and at most appends rows after them; the only rows a step
\* removes are those of an account it tears down, and it removes all of them
C31_LedgerImmutable ==
  [][LET kept == SelectSeq(transactions, LAMBDA r : r.user_id \notin TornDown) IN
       /\ Len(transactions') >= Len(kept)
       /\ SubSeq(transactions', 1, Len(kept)) = kept
       /\ \A i \in 1..Len(transactions') : transactions'[i].user_id \notin TornDown]_vars

\* a CompleteSession tore an account down, its ledger rows are gone, and the
\* rows of the other account are still there
C31_Witness ==
  \E p \in Procs :
    /\ Finished(p, "complete") /\ resp[p].code = "OK" /\ resp[p].account_deleted
    /\ DOMAIN accounts # Users
    /\ transactions # <<>>
    /\ \A i \in 1..Len(transactions) : transactions[i].user_id \in DOMAIN accounts

\* the committed ledger rows of account u, in commit order
UserRows(u) == SelectSeq(transactions, LAMBDA r : r.user_id = u)

\* C32: in every committed state the balance of every existing account is
\* its starting balance plus the amounts of its ledger rows, and its rows
\* chain in commit order: the first row starts from the starting balance,
\* each later row starts from the balance the previous row ended with, and
\* the last row ends with the account's balance
C32_LedgerChain ==
  \A u \in DOMAIN accounts :
    LET rs == UserRows(u) IN
      /\ accounts[u] = initial[u] + SumAmounts(rs, u)
      /\ rs = <<>> => accounts[u] = initial[u]
      /\ rs # <<>> =>
           /\ rs[1].balance_before_cents = initial[u]
           /\ \A k \in 1..(Len(rs) - 1) :
                rs[k + 1].balance_before_cents = rs[k].balance_after_cents
           /\ rs[Len(rs)].balance_after_cents = accounts[u]

\* two workers both changed a balance with success, one by a StartGame and
\* one by a CompleteSession that credited a payout, and an account holds a
\* bet row followed by a win row
C32_Witness ==
  /\ \E p, q \in Procs :
       /\ p # q
       /\ Finished(p, "start") /\ resp[p].code = "OK"
       /\ Finished(q, "complete") /\ resp[q].code = "OK" /\ req[q].payout > 0
  /\ \E u \in DOMAIN accounts :
       /\ Len(UserRows(u)) >= 2
       /\ UserRows(u)[2].transaction_type = "win"
       /\ UserRows(u)[2].amount_cents > 0

WinRowsOf(sid) ==
  {i \in DOMAIN transactions : /\ transactions[i].game_session_id = sid
                               /\ transactions[i].transaction_type = "win"}

\* C33: with CompleteSession and AbandonSession calls arriving for the one
\* session that was opened, at most one of them is answered with success;
\* an abandoned session has result lose and payout 0, no win row, and its
\* account holds the starting balance less the bet; a completed session has
\* exactly one win row and its account holds the starting balance less the
\* bet plus the payout
C33_AbandonCompleteRace ==
  /\ \A p, q \in Procs :
       ~(/\ Finished(p, "complete") /\ resp[p].code = "OK"
         /\ Finished(q, "abandon") /\ resp[q].code = "OK")
  /\ \A id \in DOMAIN game_sessions :
       LET row == game_sessions[id] IN
         /\ row.status = "abandoned" =>
              /\ row.result = "lose" /\ row.payout_cents = 0
              /\ WinRowsOf(id) = {}
              /\ accounts[row.user_id] = initial[row.user_id] - row.bet_cents
         /\ row.status = "completed" =>
              /\ Cardinality(WinRowsOf(id)) = 1
              /\ accounts[row.user_id] =
                   initial[row.user_id] - row.bet_cents + row.payout_cents

\* a CompleteSession and an AbandonSession were both served for the same
\* session: the completion won, and the abandonment found no active session
C33_Witness ==
  \E p, q \in Procs :
    /\ Finished(p, "complete") /\ resp[p].code = "OK" /\ req[p].payout > 0
    /\ Finished(q, "abandon") /\ resp[q].code = "NO_SESSION"
    /\ req[p].sid \in DOMAIN game_sessions
    /\ game_sessions[req[p].sid].user_id = req[q].user
    /\ game_sessions[req[p].sid].status = "completed"

\* C34: in every committed state every session row and every ledger row
\* belongs to an existing user with an account, and every ledger row names
\* an existing session; a StartGame that has read the account row works on
\* an account that still exists, so none commits rows for a removed account
C34_RowsReferToAccounts ==
  /\ \A id \in DOMAIN game_sessions :
       /\ game_sessions[id].user_id \in users
       /\ game_sessions[id].user_id \in DOMAIN accounts
  /\ \A i \in DOMAIN transactions :
       /\ transactions[i].user_id \in users
       /\ transactions[i].user_id \in DOMAIN accounts
       /\ transactions[i].game_session_id \in DOMAIN game_sessions
  /\ \A p \in Procs :
       pc[p] \in {"sg_count", "sg_update", "sg_insert", "sg_ledger", "sg_commit"}
         => (req[p].user \in users /\ req[p].user \in DOMAIN accounts)
  /\ \A p \in Procs :
       (Finished(p, "start") /\ resp[p].code = "OK"
        /\ req[p].user \notin DOMAIN accounts)
         => (SessionsOf(req[p].user) = {} /\ LedgerRowsOf(req[p].user) = {})

\* a CompleteSession tore an account down and a StartGame for that account
\* found no account row and failed; nothing of the account is left
C34_Witness ==
  \E p, q \in Procs :
    /\ Finished(q, "complete") /\ resp[q].code = "OK" /\ resp[q].account_deleted
    /\ Finished(p, "start") /\ resp[p].code = "DB_ERROR" /\ ~resp[p].fault
    /\ req[p].user = resp[q].user
    /\ req[p].user \notin DOMAIN accounts
    /\ SessionsOf(req[p].user) = {} /\ LedgerRowsOf(req[p].user) = {}

\* C35: every StartGame, CompleteSession and AbandonSession call that was
\* started on the contended account is eventually answered, whatever the
\* other workers hold and wait for
C35_AllCallsTerminate ==
  \A p \in Procs : (pc[p] # "idle") ~> (pc[p] = "idle")

\* a StartGame waits for the account row while a CompleteSession holds the
\* session row and the account row and is about to tear the account down
C35_Witness ==
  \E p, q \in Procs :
    /\ p # q
    /\ pc[p] = "sg_lock" /\ accountLock[req[p].user] = q
    /\ pc[q] = "cs_delete"
    /\ \E id \in SessionIDs : sessionLock[id] = q

\* C36: whenever a StartGame has passed its count of active sessions and is
\* about to INSERT the new active row, the row fits the one-active-session
\* index: the account has no active session, committed or written by this
\* transaction, and no other transaction holds an uncommitted active row of
\* the account that the INSERT would have to wait for
C36_InsertFitsUniqueIndex ==
  \A p \in Procs :
    pc[p] = "sg_insert" =>
      /\ idx_one_active_session_per_user(
           (nextSessionID :> NewSession(req[p].user, req[p].game, req[p].bet))
             @@ ViewSessions(p), req[p].user)
      /\ ActiveSessionIDs(ViewSessions(p), req[p].user) = {}
      /\ ~PendingActiveInsert(p, req[p].user)
      /\ accountLock[req[p].user] = p

\* a StartGame is about to insert its session row while a second StartGame
\* for the same account waits for the account row
C36_Witness ==
  \E p, q \in Procs :
    /\ p # q
    /\ pc[p] = "sg_insert"
    /\ pc[q] = "sg_lock" /\ req[q].user = req[p].user
    /\ accountLock[req[p].user] = p

====
